---- MODULE Spec2Model ----
(***************************************************************************)
(* A model of complexDissect.py: the long-format complex loader and the    *)
(* pairwise comparison of compareSets, the short-to-long converter         *)
(* convertToLong, and the ortholog mapping stages of compareSpecies.       *)
(*                                                                         *)
(* A file is modelled by its data rows (the header line is read and        *)
(* dropped by the code before the loop); a row is the list of fields that  *)
(* (line.rstrip()).split() yields for that line, so a blank line is the    *)
(* empty list.  A Python float n/d is modelled by the reduced fraction     *)
(* <<n, d>>: for the small integers the model uses, distinct fractions     *)
(* are distinct doubles and float comparison agrees with the comparison    *)
(* of the fractions.                                                       *)
(***************************************************************************)
EXTENDS Integers, Sequences, FiniteSets, TLC

\* ---------------------------------------------------------------- bounds
MaxExpRows == 2
MaxModelRows == 2
MaxShortRows == 2
MaxShortMembers == 2
MaxMapFiles == 2
MaxRebuilds == 2

\* the identifiers and raw complex labels that occur in the input files
Members == {"P1", "P2"}
Labels == {"A", "B"}

\* the short set names the user types at the prompts
name1 == "exp"
name2 == "mod"

VARIABLES
    short_file,        \* data rows of the short-format file, if one is converted
    file1,             \* data rows of the experimental file
    file2,             \* data rows of the model file
    pc,                \* "convert", "ready", "done", "crashed", "exited", "looping"
    exp_complexes,     \* complex name -> member list
    model_complexes,   \* complex name -> member list
    exp_conservation,  \* complex name -> <<max complex con, set con>>
    compared_file,     \* the report on disk
    error,             \* the uncaught exception that ended the run, if any
    id_conversion,     \* UniProt AC -> <<b-code, JW-code>>
    map_files,         \* number of files matching uniprot_og_maps_*.txt
    taxon_files,       \* number of files matching og_to_taxid_*.txt
    map_content,       \* the lines of the map file: UniProt AC -> OG entry
    taxon_content,     \* the lines of the taxon file: OG -> taxid list
    rebuilds,          \* calls of get_eggnog_maps made by the run
    uniprot_to_og,
    og_to_taxid,
    all_taxids,
    unified_components,
    component_ogs,
    unmapped_components,
    og_list,
    all_cplx_taxids,
    component_file,    \* <name1>_component_conservation.txt
    cplx_file,         \* <name1>_complex_conservation.txt
    stage,             \* the position of the main flow, "none" outside it
    answers,           \* the Y/N answers typed at the four prompts
    mode,              \* "default" or "ecoli"; id_conversion is bound iff "ecoli"
    ecoli_txt,         \* what getEcoliIDs parses from ecoli.txt
    complex_files      \* number of files matching complexes*.txt

setsVars == <<model_complexes, exp_conservation, compared_file>>

diskVars == <<id_conversion, map_content, taxon_content>>

speciesVars == <<map_files, taxon_files, rebuilds, uniprot_to_og, og_to_taxid,
                 all_taxids, unified_components, component_ogs,
                 unmapped_components, og_list, all_cplx_taxids,
                 component_file, cplx_file>>

mainVars == <<stage, answers, mode, ecoli_txt, complex_files>>

vars == <<short_file, file1, file2, pc, exp_complexes, error, setsVars,
          diskVars, speciesVars, mainVars>>

\* ------------------------------------------------------------ primitives
EmptyDict == <<>>

SeqsUpTo(S, n) == UNION {[1..k -> S] : k \in 0..n}

RECURSIVE GCD(_, _)
GCD(a, b) == IF b = 0 THEN a ELSE GCD(b, a % b)

\* float(n)/d, d > 0
Frac(n, d) == LET g == GCD(n, d) IN <<n \div g, d \div g>>

Zero == <<0, 1>>
One == <<1, 1>>

Gt(p, q) == p[1] * q[2] > q[1] * p[2]
Geq(p, q) == p[1] * q[2] >= q[1] * p[2]

\* Python's "x in list"
MemberIn(x, list) == \E i \in 1..Len(list) : list[i] = x

\* "%5.4f" % x, as the number of ten-thousandths printed (no fraction the
\* model produces lies halfway between two printed values)
Fmt4(q) ==
    LET x == 10000 * q[1]
    IN  IF 2 * (x % q[2]) >= q[2] THEN (x \div q[2]) + 1 ELSE x \div q[2]

NoError == [kind |-> "none", src_line |-> 0]
NoFile == [exists |-> FALSE, rows |-> EmptyDict]

\* ------------------------------------------------------------ the loader
\* the loop body of the two loaders of compareSets: one row of the file
LoadRowOverwrite(complexes, name, line_content) ==
    LET complex_name == name \o "_" \o line_content[2]
    IN  IF complex_name \in DOMAIN complexes
        THEN [complexes EXCEPT ![complex_name] = <<line_content[1]>>]
        ELSE complexes @@ (complex_name :> <<line_content[1]>>)

LoadRowEmptyFirst(complexes, name, line_content) ==
    LET complex_name == name \o "_" \o line_content[2]
    IN  IF complex_name \in DOMAIN complexes
        THEN [complexes EXCEPT ![complex_name] = Append(@, line_content[1])]
        ELSE complexes @@ (complex_name :> <<>>)

LoadRow(complexes, name, line_content) ==
    LET complex_name == name \o "_" \o line_content[2]
    IN  IF complex_name \in DOMAIN complexes
        THEN [complexes EXCEPT ![complex_name] = Append(@, line_content[1])]
        ELSE complexes @@ (complex_name :> <<line_content[1]>>)

RECURSIVE LoadRows(_, _, _)
LoadRows(complexes, name, rows) ==
    IF rows = <<>> THEN complexes
    ELSE LoadRows(LoadRow(complexes, name, Head(rows)), name, Tail(rows))

LoadComplexes(rows, name) == LoadRows(EmptyDict, name, rows)

\* line_content[1] raises IndexError on a row of fewer than two fields
RowRaises(line_content) == Len(line_content) < 2

FileRaises(rows) == \E i \in 1..Len(rows) : RowRaises(rows[i])

\* -------------------------------------------------------- the comparison
\* The body of the loop over the model complexes (lines 188-197) for one
\* experimental member and one model complex.  complex_con and
\* con_members_conserved are set to 0 at the top of every pass.
ScanModelComplexRecount(complex_member, model_members, st) ==
    IF MemberIn(complex_member, model_members)
    THEN LET con_members_conserved == 0 + 1
             complex_con == Frac(con_members_conserved, Len(model_members))
         IN  [any_conserved |-> st.any_conserved + 1,
              members_counted |-> Append(st.members_counted, complex_member),
              max_con |-> IF Gt(complex_con, st.max_con)
                          THEN complex_con ELSE st.max_con]
    ELSE st

ScanModelComplexInverted(complex_member, model_members, st) ==
    IF ~MemberIn(complex_member, model_members)
    THEN LET con_members_conserved == 0 + 1
             complex_con == Frac(con_members_conserved, Len(model_members))
         IN  [any_conserved |->
                  IF ~MemberIn(complex_member, st.members_counted)
                  THEN st.any_conserved + 1 ELSE st.any_conserved,
              members_counted |-> Append(st.members_counted, complex_member),
              max_con |-> IF Gt(complex_con, st.max_con)
                          THEN complex_con ELSE st.max_con]
    ELSE st

ScanModelComplex(complex_member, model_members, st) ==
    IF MemberIn(complex_member, model_members)
    THEN LET con_members_conserved == 0 + 1
             complex_con == Frac(con_members_conserved, Len(model_members))
         IN  [any_conserved |->
                  IF ~MemberIn(complex_member, st.members_counted)
                  THEN st.any_conserved + 1 ELSE st.any_conserved,
              members_counted |-> Append(st.members_counted, complex_member),
              max_con |-> IF Gt(complex_con, st.max_con)
                          THEN complex_con ELSE st.max_con]
    ELSE st

\* "for model_complex in model_complexes": the dict is visited in some
\* order; todo is the set of keys not yet visited
RECURSIVE ScanModel(_, _, _, _)
ScanModel(complex_member, todo, model, st) ==
    IF todo = {} THEN st
    ELSE LET model_complex == CHOOSE c \in todo : TRUE
         IN  ScanModel(complex_member, todo \ {model_complex}, model,
                       ScanModelComplex(complex_member, model[model_complex], st))

\* "for complex_member in exp_complexes[complex_name]": members_counted is
\* emptied at the top of every pass (line 186)
RECURSIVE ScanMembers(_, _, _)
ScanMembers(members, model, st) ==
    IF members = <<>> THEN st
    ELSE ScanMembers(Tail(members), model,
             ScanModel(Head(members), DOMAIN model, model,
                       [st EXCEPT !.members_counted = <<>>]))

\* the body of the loop over the experimental complexes (lines 183-199)
CompareComplex(members, model) ==
    LET st == ScanMembers(members, model,
                  [any_conserved |-> 0, members_counted |-> <<>>,
                   max_con |-> Zero])
        any_coverage == Frac(st.any_conserved, Len(members))
    IN  <<st.max_con, any_coverage>>

Conservation(exp, model) ==
    [complex_name \in DOMAIN exp |-> CompareComplex(exp[complex_name], model)]

\* the divisions of lines 195 and 198 raise ZeroDivisionError on an empty
\* member list: line 198 for every experimental complex, line 195 for a
\* model complex in which a member was found
ZeroDivisorAt198(exp) == \E e \in DOMAIN exp : Len(exp[e]) = 0

ZeroDivisorAt195(exp, model) ==
    \E e \in DOMAIN exp : \E c \in DOMAIN model :
        /\ Len(model[c]) = 0
        /\ \E i \in 1..Len(exp[e]) : MemberIn(exp[e][i], model[c])

\* the report: one line per key of exp_conservation, two "%5.4f" columns
Report(conservation) ==
    [exists |-> TRUE,
     rows |-> [complex_name \in DOMAIN conservation |->
                  <<Fmt4(conservation[complex_name][1]),
                    Fmt4(conservation[complex_name][2])>>]]

\* --------------------------------------------------------- convertToLong
\* the loop body of the reader of convertToLong (lines 139-140): the row's
\* first field is the key, the rest of the row is stored under it
ConvertRow(complex_members, line_content) ==
    IF line_content[1] \in DOMAIN complex_members
    THEN [complex_members EXCEPT ![line_content[1]] = Tail(line_content)]
    ELSE complex_members @@ (line_content[1] :> Tail(line_content))

RECURSIVE ConvertRows(_, _)
ConvertRows(complex_members, rows) ==
    IF rows = <<>> THEN complex_members
    ELSE ConvertRows(ConvertRow(complex_members, Head(rows)), Tail(rows))

\* line_content[0] raises IndexError on a blank line
ShortFileRaises(rows) == \E i \in 1..Len(rows) : Len(rows[i]) < 1

\* the lines written for one complex (lines 146-147)
LongLines(complex_name, members) ==
    [k \in 1..Len(members) |-> <<members[k], complex_name>>]

\* the lines written for the complexes in the order the dict yields them
RECURSIVE WriteLong(_, _)
WriteLong(complex_members, order) ==
    IF order = <<>> THEN <<>>
    ELSE LongLines(Head(order), complex_members[Head(order)])
             \o WriteLong(complex_members, Tail(order))

\* the orders in which "for complex_name in complex_members" may run
KeyOrders(complex_members) ==
    {order \in [1..Cardinality(DOMAIN complex_members) -> DOMAIN complex_members] :
        \A i, j \in DOMAIN order : i # j => order[i] # order[j]}

\* ------------------------------------------------------------ input sets
GoodRows == {<<m, l>> : m \in Members, l \in Labels}
ShortRows == {<<>>} \cup {<<m>> : m \in Members}
LongRows == GoodRows \cup ShortRows

\* -------------------------------------------------------- compareSpecies
\* the keys of a dict in the order a "for ... in dict" loop yields them
RECURSIVE DictOrder(_)
DictOrder(keys) ==
    IF keys = {} THEN <<>>
    ELSE LET k == CHOOSE x \in keys : TRUE IN <<k>> \o DictOrder(keys \ {k})

\* "if x not in list: list.append(x)"
AppendNew(list, x) == IF MemberIn(x, list) THEN list ELSE Append(list, x)

RECURSIVE AppendAllNew(_, _)
AppendAllNew(list, xs) ==
    IF xs = <<>> THEN list ELSE AppendAllNew(AppendNew(list, Head(xs)), Tail(xs))

\* an OG entry of the map file: the OG ids of one protein joined by ","
\* (line 372)
RECURSIVE Join(_)
Join(tokens) ==
    IF Len(tokens) = 1 THEN tokens[1]
    ELSE tokens[1] \o "," \o Join(Tail(tokens))

OGs == {"COG1", "COG2"}
OgTokenLists == {<<"COG1">>, <<"COG1", "COG2">>}
OgEntries == {Join(tokens) : tokens \in OgTokenLists}

\* entry.split(","), for the entries and identifiers of the model
CommaSplit(entry) ==
    IF entry \in OgEntries
    THEN CHOOSE tokens \in OgTokenLists : Join(tokens) = entry
    ELSE <<entry>>

\* the identifiers whose gene ids hold the component (lines 478-482)
RECURSIVE UnifyComponent(_, _, _)
UnifyComponent(component, identifiers, conversion) ==
    IF identifiers = <<>> THEN <<>>
    ELSE (IF MemberIn(component, conversion[Head(identifiers)])
          THEN <<Head(identifiers)>> ELSE <<>>)
             \o UnifyComponent(component, Tail(identifiers), conversion)

RECURSIVE UnifyMembers(_, _)
UnifyMembers(members, conversion) ==
    IF members = <<>> THEN <<>>
    ELSE UnifyComponent(Head(members), DictOrder(DOMAIN conversion), conversion)
             \o UnifyMembers(Tail(members), conversion)

\* lines 476-482
RECURSIVE UnifyComplexes(_, _, _)
UnifyComplexes(names, complexes, conversion) ==
    IF names = <<>> THEN <<>>
    ELSE UnifyMembers(complexes[Head(names)], conversion)
             \o UnifyComplexes(Tail(names), complexes, conversion)

\* the groups that a map entry adds to og_list (lines 488-491): the entry
\* itself, whatever it holds
OgTokensSplit(new_og) == CommaSplit(new_og)

OgTokens(new_og) == <<new_og>>

\* the body of the loop of lines 486-494
MapComponent(st, component, og_map) ==
    IF component \in DOMAIN og_map
    THEN LET new_og == og_map[component]
         IN  [st EXCEPT !.component_ogs =
                            [c \in DOMAIN @ \cup {component} |->
                                IF c = component THEN new_og ELSE @[c]],
                        !.og_list = AppendAllNew(@, OgTokens(new_og))]
    ELSE [st EXCEPT !.component_ogs =
                        [c \in DOMAIN @ \cup {component} |->
                            IF c = component THEN component ELSE @[c]],
                    !.unmapped_components = Append(@, component)]

RECURSIVE MapComponents(_, _, _)
MapComponents(st, components, og_map) ==
    IF components = <<>> THEN st
    ELSE MapComponents(MapComponent(st, Head(components), og_map),
                       Tail(components), og_map)

\* lines 496-500
RECURSIVE CollectTaxids(_, _, _)
CollectTaxids(taxids, ogs, taxid_map) ==
    IF ogs = <<>> THEN taxids
    ELSE CollectTaxids(IF Head(ogs) \in DOMAIN taxid_map
                       THEN AppendAllNew(taxids, taxid_map[Head(ogs)])
                       ELSE taxids,
                       Tail(ogs), taxid_map)

\* lines 455-458, over the lines of the taxon file
RECURSIVE AllTaxids(_, _, _)
AllTaxids(taxids, ogs, taxid_map) ==
    IF ogs = <<>> THEN taxids
    ELSE AllTaxids(AppendAllNew(taxids, taxid_map[Head(ogs)]), Tail(ogs),
                   taxid_map)

\* a conservation file: the header of taxids and one line per row label
Matrix(header, row_labels) ==
    [exists |-> TRUE, header |-> header, rows |-> row_labels]

NoMatrix == [exists |-> FALSE, header |-> <<>>, rows |-> <<>>]

\* the number of files of one kind after get_eggnog_maps has written the
\* file named after today's date: it replaces a file of that name or is new
AfterRebuildNotFound(n) == {n}

AfterRebuild(n) == IF n = 0 THEN {1} ELSE {n, n + 1}

\* the "while not ready_to_map" loop (lines 428-464) up to the pass that
\* finds a file of each kind: the file counts that pass may see and the
\* calls of get_eggnog_maps made before it.  A run still without a file of
\* some kind after MaxRebuilds calls is followed no further.
RECURSIVE MapLoop(_, _, _)
MapLoop(nm, nt, calls) ==
    IF nm > 0 /\ nt > 0
    THEN {[map_files |-> nm, taxon_files |-> nt, rebuilds |-> calls,
           found |-> TRUE]}
    ELSE IF calls >= MaxRebuilds
    THEN {[map_files |-> nm, taxon_files |-> nt, rebuilds |-> calls,
           found |-> FALSE]}
    ELSE UNION {MapLoop(a, b, calls + 1) :
                   a \in AfterRebuild(nm), b \in AfterRebuild(nt)}

SpeciesIdle ==
    /\ id_conversion = EmptyDict
    /\ map_files = 0
    /\ taxon_files = 0
    /\ map_content = EmptyDict
    /\ taxon_content = EmptyDict
    /\ rebuilds = 0
    /\ uniprot_to_og = EmptyDict
    /\ og_to_taxid = EmptyDict
    /\ all_taxids = <<>>
    /\ unified_components = <<>>
    /\ component_ogs = EmptyDict
    /\ unmapped_components = <<>>
    /\ og_list = <<>>
    /\ all_cplx_taxids = <<>>
    /\ component_file = NoMatrix
    /\ cplx_file = NoMatrix

NoAnswers == [ecoli |-> FALSE, convert |-> FALSE, model |-> FALSE,
              taxon |-> FALSE]

MainIdle ==
    /\ stage = "none"
    /\ answers = NoAnswers
    /\ mode = "default"
    /\ ecoli_txt = EmptyDict
    /\ complex_files = 2

\* ---------------------------------------------------------------- actions
\* the two files of the worked scenario: experimental A = P1 P2, B = P3
\* against model X = P1 P2 P4, Y = P3
ScenarioExp == <<<<"P1", "A">>, <<"P2", "A">>, <<"P3", "B">>>>
ScenarioModel == <<<<"P1", "X">>, <<"P2", "X">>, <<"P4", "X">>, <<"P3", "Y">>>>

InitSets ==
    /\ short_file = <<>>
    /\ \/ /\ file1 \in SeqsUpTo(LongRows, MaxExpRows)
          /\ file2 \in SeqsUpTo(LongRows, MaxModelRows)
       \/ /\ file1 = ScenarioExp
          /\ file2 = ScenarioModel
    /\ pc = "ready"
    /\ exp_complexes = EmptyDict
    /\ model_complexes = EmptyDict
    /\ exp_conservation = EmptyDict
    /\ compared_file = NoFile
    /\ error = NoError
    /\ MainIdle
    /\ SpeciesIdle

\* compareSets(filename1, name1, filename2, name2, mode)
CompareSets ==
    /\ pc = "ready"
    /\ IF FileRaises(file1)
       THEN /\ pc' = "crashed"
            /\ error' = [kind |-> "IndexError", src_line |-> 166]
            /\ UNCHANGED <<exp_complexes, model_complexes, exp_conservation,
                           compared_file>>
       ELSE IF FileRaises(file2)
       THEN /\ pc' = "crashed"
            /\ error' = [kind |-> "IndexError", src_line |-> 175]
            /\ exp_complexes' = LoadComplexes(file1, name1)
            /\ UNCHANGED <<model_complexes, exp_conservation, compared_file>>
       ELSE IF \/ ZeroDivisorAt195(LoadComplexes(file1, name1),
                                    LoadComplexes(file2, name2))
               \/ ZeroDivisorAt198(LoadComplexes(file1, name1))
       THEN /\ pc' = "crashed"
            /\ error' = [kind |-> "ZeroDivisionError",
                         src_line |-> IF ZeroDivisorAt198(LoadComplexes(file1, name1))
                                      THEN 198 ELSE 195]
            /\ exp_complexes' = LoadComplexes(file1, name1)
            /\ model_complexes' = LoadComplexes(file2, name2)
            /\ UNCHANGED <<exp_conservation, compared_file>>
       ELSE /\ exp_complexes' = LoadComplexes(file1, name1)
            /\ model_complexes' = LoadComplexes(file2, name2)
            /\ exp_conservation' =
                   Conservation(exp_complexes', model_complexes')
            /\ compared_file' = Report(exp_conservation')
            /\ pc' = "done"
            /\ UNCHANGED error
    /\ UNCHANGED <<short_file, file1, file2, diskVars, speciesVars, mainVars>>

\* between two runs the user adds a row to the model file; the next run
\* starts with fresh dictionaries and finds the old report on disk
AddModelRow ==
    /\ pc = "done"
    /\ Len(file2) < MaxModelRows
    /\ \E row \in GoodRows : file2' = Append(file2, row)
    /\ pc' = "ready"
    /\ exp_complexes' = EmptyDict
    /\ model_complexes' = EmptyDict
    /\ exp_conservation' = EmptyDict
    /\ UNCHANGED <<short_file, file1, compared_file, error, diskVars,
                   speciesVars, mainVars>>

NextSets == CompareSets \/ AddModelRow

\* rows of a short file: a label followed by its members, or a blank line
ShortFormatRows ==
    {<<>>} \cup {<<l>> \o ms : l \in Labels, ms \in SeqsUpTo(Members, MaxShortMembers)}

\* the model files the converted set is compared with
ConvertModelFiles == {<<>>, <<<<"P1", "A">>>>}

InitConvert ==
    /\ short_file \in SeqsUpTo(ShortFormatRows, MaxShortRows)
    /\ file1 = <<>>
    /\ file2 \in ConvertModelFiles
    /\ pc = "convert"
    /\ exp_complexes = EmptyDict
    /\ model_complexes = EmptyDict
    /\ exp_conservation = EmptyDict
    /\ compared_file = NoFile
    /\ error = NoError
    /\ MainIdle
    /\ SpeciesIdle

\* convertToLong(filename); its output is then used as the experimental file
ConvertToLong ==
    /\ pc = "convert"
    /\ IF ShortFileRaises(short_file)
       THEN /\ pc' = "crashed"
            /\ error' = [kind |-> "IndexError", src_line |-> 140]
            /\ UNCHANGED file1
       ELSE /\ \E order \in KeyOrders(ConvertRows(EmptyDict, short_file)) :
                   file1' = WriteLong(ConvertRows(EmptyDict, short_file), order)
            /\ pc' = "ready"
            /\ UNCHANGED error
    /\ UNCHANGED <<short_file, file2, exp_complexes, setsVars, diskVars,
                   speciesVars, mainVars>>

NextConvert == ConvertToLong \/ CompareSets

SpecConvert == InitConvert /\ [][NextConvert]_vars

SpecSets == InitSets /\ [][NextSets]_vars

\* the inputs of compareSpecies
Components == {"b1", "b2"}
UniprotACs == {"U1", "U2"}
GeneIds == {<<"b1", "JW1">>, <<"b2", "NA">>}
TaxidLists == {<<"t1">>, <<"t1", "t2">>}
SpeciesLabels == {"A"}
SpeciesRows == {<<>>} \cup {<<c, l>> : c \in Components, l \in SpeciesLabels}

PartialFns(D, R) == UNION {[S -> R] : S \in SUBSET D}

InitSpecies ==
    /\ short_file = <<>>
    /\ file1 \in SeqsUpTo(SpeciesRows, MaxExpRows)
    /\ file2 = <<>>
    /\ pc = "ready"
    /\ exp_complexes = EmptyDict
    /\ model_complexes = EmptyDict
    /\ exp_conservation = EmptyDict
    /\ compared_file = NoFile
    /\ error = NoError
    /\ MainIdle
    /\ id_conversion \in PartialFns(UniprotACs, GeneIds)
    /\ map_files \in 0..MaxMapFiles
    /\ taxon_files \in 0..MaxMapFiles
    /\ map_content \in PartialFns(UniprotACs, OgEntries)
    /\ taxon_content \in PartialFns(OGs, TaxidLists)
    /\ rebuilds = 0
    /\ uniprot_to_og = EmptyDict
    /\ og_to_taxid = EmptyDict
    /\ all_taxids = <<>>
    /\ unified_components = <<>>
    /\ component_ogs = EmptyDict
    /\ unmapped_components = <<>>
    /\ og_list = <<>>
    /\ all_cplx_taxids = <<>>
    /\ component_file = NoMatrix
    /\ cplx_file = NoMatrix

\* compareSpecies(filename1, name1, id_conversion)
CompareSpecies ==
    /\ pc = "ready"
    /\ \E pass \in MapLoop(map_files, taxon_files, 0) :
          /\ map_files' = pass.map_files
          /\ taxon_files' = pass.taxon_files
          /\ rebuilds' = pass.rebuilds
          /\ IF ~pass.found
             THEN /\ pc' = "looping"
                  /\ UNCHANGED <<error, exp_complexes, uniprot_to_og,
                                 og_to_taxid, all_taxids, unified_components,
                                 component_ogs, unmapped_components, og_list,
                                 all_cplx_taxids, component_file, cplx_file>>
             ELSE IF pass.map_files # 1
             THEN /\ pc' = "exited"
                  /\ error' = [kind |-> "SystemExit", src_line |-> 444]
                  /\ UNCHANGED <<exp_complexes, uniprot_to_og, og_to_taxid,
                                 all_taxids, unified_components, component_ogs,
                                 unmapped_components, og_list, all_cplx_taxids,
                                 component_file, cplx_file>>
             ELSE IF pass.taxon_files # 1
             THEN /\ pc' = "exited"
                  /\ error' = [kind |-> "SystemExit", src_line |-> 460]
                  /\ uniprot_to_og' = map_content
                  /\ UNCHANGED <<exp_complexes, og_to_taxid, all_taxids,
                                 unified_components, component_ogs,
                                 unmapped_components, og_list, all_cplx_taxids,
                                 component_file, cplx_file>>
             ELSE IF FileRaises(file1)
             THEN /\ pc' = "crashed"
                  /\ error' = [kind |-> "IndexError", src_line |-> 470]
                  /\ uniprot_to_og' = map_content
                  /\ og_to_taxid' = taxon_content
                  /\ all_taxids' = AllTaxids(<<>>, DictOrder(DOMAIN taxon_content),
                                             taxon_content)
                  /\ UNCHANGED <<exp_complexes, unified_components,
                                 component_ogs, unmapped_components, og_list,
                                 all_cplx_taxids, component_file, cplx_file>>
             ELSE LET complexes == LoadComplexes(file1, name1)
                      unified == UnifyComplexes(DictOrder(DOMAIN complexes),
                                                complexes, id_conversion)
                      st == MapComponents([component_ogs |-> EmptyDict,
                                           unmapped_components |-> <<>>,
                                           og_list |-> <<>>],
                                          unified, map_content)
                      taxids == CollectTaxids(<<>>, st.og_list, taxon_content)
                  IN  /\ uniprot_to_og' = map_content
                      /\ og_to_taxid' = taxon_content
                      /\ all_taxids' =
                             AllTaxids(<<>>, DictOrder(DOMAIN taxon_content),
                                       taxon_content)
                      /\ exp_complexes' = complexes
                      /\ unified_components' = unified
                      /\ component_ogs' = st.component_ogs
                      /\ unmapped_components' = st.unmapped_components
                      /\ og_list' = st.og_list
                      /\ all_cplx_taxids' = taxids
                      /\ component_file' = Matrix(taxids, st.og_list)
                      /\ cplx_file' =
                             Matrix(taxids, DictOrder(DOMAIN complexes))
                      /\ pc' = "done"
                      /\ UNCHANGED error
    /\ UNCHANGED <<short_file, file1, file2, setsVars, diskVars, mainVars>>

NextSpecies == CompareSpecies

SpecSpecies == InitSpecies /\ [][NextSpecies]_vars

\* --------------------------------------------------------- the main flow
\* the inputs of a whole run
MainExpFiles == {<<>>, <<<<"b1", "A">>>>, <<<<>>>>}
MainModelFiles == {<<>>, <<<<"b1", "A">>>>}
MainShortFiles == {<<>>, <<<<"A", "b1">>>>}
EcoliTables == {EmptyDict, [U \in {"U1"} |-> <<"b1", "JW1">>]}
ComplexFileCounts == {1, 2, 3}

InitMain ==
    /\ stage = "ecoli"
    /\ pc = "main"
    /\ answers \in [{"ecoli", "convert", "model", "taxon"} -> BOOLEAN]
    /\ mode = "default"
    /\ ecoli_txt \in EcoliTables
    /\ complex_files \in ComplexFileCounts
    /\ short_file \in (IF answers.convert THEN MainShortFiles ELSE {<<>>})
    /\ file1 \in MainExpFiles
    /\ file2 \in MainModelFiles
    /\ exp_complexes = EmptyDict
    /\ model_complexes = EmptyDict
    /\ exp_conservation = EmptyDict
    /\ compared_file = NoFile
    /\ error = NoError
    /\ id_conversion = EmptyDict
    /\ map_files \in 0..MaxMapFiles
    /\ taxon_files \in 0..MaxMapFiles
    /\ map_content = [U \in {"U1"} |-> "COG1"]
    /\ taxon_content = [og \in {"COG1"} |-> <<"t1">>]
    /\ rebuilds = 0
    /\ uniprot_to_og = EmptyDict
    /\ og_to_taxid = EmptyDict
    /\ all_taxids = <<>>
    /\ unified_components = <<>>
    /\ component_ogs = EmptyDict
    /\ unmapped_components = <<>>
    /\ og_list = <<>>
    /\ all_cplx_taxids = <<>>
    /\ component_file = NoMatrix
    /\ cplx_file = NoMatrix

mainFrame == <<short_file, file1, file2, exp_complexes, setsVars, map_content,
               taxon_content, speciesVars, answers, ecoli_txt, complex_files>>

\* lines 522-527: the name id_conversion is bound only on the answer Y
AskEcoli ==
    /\ stage = "ecoli"
    /\ IF answers.ecoli
       THEN /\ id_conversion' = ecoli_txt
            /\ mode' = "ecoli"
       ELSE UNCHANGED <<id_conversion, mode>>
    /\ stage' = "convert"
    /\ UNCHANGED <<pc, error, mainFrame>>

\* lines 529-537: on Y the short file is named and convertToLong is called
AskConvert ==
    /\ stage = "convert"
    /\ IF answers.convert
       THEN stage' = "converting" /\ pc' = "convert"
       ELSE stage' = "files" /\ UNCHANGED pc
    /\ UNCHANGED <<error, id_conversion, mode, mainFrame>>

\* line 538
MainConvertToLong == stage = "converting" /\ ConvertToLong

\* lines 541-568: more than two complexes*.txt files end the run
FindComplexFiles ==
    /\ stage = "files" \/ (stage = "converting" /\ pc = "ready")
    /\ IF complex_files > 2
       THEN /\ pc' = "exited"
            /\ error' = [kind |-> "SystemExit", src_line |-> 543]
            /\ stage' = "end"
       ELSE /\ pc' = "main"
            /\ stage' = "model"
            /\ UNCHANGED error
    /\ UNCHANGED <<id_conversion, mode, mainFrame>>

\* lines 570-572
AskModelComparison ==
    /\ stage = "model"
    /\ IF answers.model
       THEN stage' = "comparing" /\ pc' = "ready"
       ELSE stage' = "taxon" /\ UNCHANGED pc
    /\ UNCHANGED <<error, id_conversion, mode, mainFrame>>

\* line 573
MainCompareSets == stage = "comparing" /\ CompareSets

\* evaluating the argument id_conversion of the call at line 580 raises
\* NameError when the name was never bound
CallNeverRaises(run_mode) == FALSE

CallRaisesNameError(run_mode) == run_mode # "ecoli"

\* lines 578-580, up to the call of compareSpecies
AskTaxonComparison ==
    /\ stage = "taxon" \/ (stage = "comparing" /\ pc = "done")
    /\ IF ~answers.taxon
       THEN /\ stage' = "end"
            /\ pc' = "end"
            /\ UNCHANGED error
       ELSE IF CallRaisesNameError(mode)
       THEN /\ stage' = "end"
            /\ pc' = "crashed"
            /\ error' = [kind |-> "NameError", src_line |-> 580]
       ELSE /\ stage' = "species"
            /\ pc' = "ready"
            /\ UNCHANGED error
    /\ UNCHANGED <<id_conversion, mode, mainFrame>>

\* line 580
MainCompareSpecies == stage = "species" /\ CompareSpecies

NextMain ==
    \/ AskEcoli
    \/ AskConvert
    \/ MainConvertToLong
    \/ FindComplexFiles
    \/ AskModelComparison
    \/ MainCompareSets
    \/ AskTaxonComparison
    \/ MainCompareSpecies

SpecMain == InitMain /\ [][NextMain]_vars

\* ------------------------------------------------------------ properties
Done == pc = "done"

ExpName(label) == name1 \o "_" \o label

\* the identifiers listed in the model file
ModelIds == {file2[j][1] : j \in 1..Len(file2)}

\* the number of entries of a member list that occur in a model complex
Matched(members, model_members) ==
    Cardinality({i \in 1..Len(members) : MemberIn(members[i], model_members)})

MaxFrac(S) == IF S = {} THEN Zero ELSE CHOOSE q \in S : \A r \in S : Geq(q, r)

BestMatchedFraction(members, model) ==
    MaxFrac({Frac(Matched(members, model[c]), Len(model[c])) : c \in DOMAIN model})

\* C1: the recorded max_complex_overlap of every experimental complex is
\* the largest, over the model complexes C, of matched(E,C) / |members(C)|,
\* matched(E,C) being the number of entries of E that are members of C.
C1_MaxOverlapIsBestMatchedFraction ==
    Done => \A e \in DOMAIN exp_complexes :
                exp_conservation[e][1] =
                    BestMatchedFraction(exp_complexes[e], model_complexes)

\* the worked scenario of C1 as the code computes it: A scores 1/3 against
\* X, where the claimed formula gives 2/3
ScenarioAsComputed ==
    (Done /\ file1 = ScenarioExp /\ file2 = ScenarioModel) =>
        /\ exp_conservation[ExpName("A")] = <<Frac(1, 3), One>>
        /\ exp_conservation[ExpName("B")] = <<One, One>>
        /\ BestMatchedFraction(exp_complexes[ExpName("A")], model_complexes)
               = Frac(2, 3)
        /\ compared_file.rows[ExpName("A")] = <<3333, 10000>>

\* the distinct members of a complex that occur in some model complex
Covered(members) == {members[i] : i \in 1..Len(members)} \cap ModelIds

\* C2: the recorded set_coverage of every experimental complex is the
\* number of its distinct covered members over the length of its member
\* list.
C2_CoverageCountsDistinctMembers ==
    Done => \A e \in DOMAIN exp_complexes :
                exp_conservation[e][2] =
                    Frac(Cardinality(Covered(exp_complexes[e])),
                         Len(exp_complexes[e]))

SameComplexes ==
    \A l \in Labels :
        /\ (name1 \o "_" \o l \in DOMAIN exp_complexes)
               <=> (name2 \o "_" \o l \in DOMAIN model_complexes)
        /\ (name1 \o "_" \o l \in DOMAIN exp_complexes)
               => exp_complexes[name1 \o "_" \o l]
                      = model_complexes[name2 \o "_" \o l]

\* C3: when the experimental and the model set hold the same complexes
\* with the same members, every record is (1.0, 1.0).
C3_IdenticalSetsScoreOne ==
    (Done /\ SameComplexes) =>
        \A e \in DOMAIN exp_conservation : exp_conservation[e] = <<One, One>>

NoMemberInModel(members) ==
    \A i \in 1..Len(members) : members[i] \notin ModelIds

\* C4: there is exactly one record per experimental complex name, and the
\* record of a complex none of whose members occurs in a model complex is
\* (0.0, 0.0).
C4_OneRecordPerComplexZeroWhenDisjoint ==
    Done =>
        /\ DOMAIN exp_conservation = {ExpName(file1[i][2]) : i \in 1..Len(file1)}
        /\ DOMAIN compared_file.rows = DOMAIN exp_conservation
        /\ \A e \in DOMAIN exp_conservation :
               NoMemberInModel(exp_complexes[e]) =>
                   /\ exp_conservation[e] = <<Zero, Zero>>
                   /\ compared_file.rows[e] = <<0, 0>>

C4_Witness ==
    /\ Done
    /\ file2 # <<>>
    /\ \E e \in DOMAIN exp_conservation : NoMemberInModel(exp_complexes[e])
    /\ \E e \in DOMAIN exp_conservation : ~NoMemberInModel(exp_complexes[e])

InUnit(q) == Geq(q, Zero) /\ Geq(One, q)

\* C5: both scores of every record lie in [0, 1], also when member lists
\* hold duplicates and a member belongs to several complexes.
C5_ScoresInUnitInterval ==
    Done => \A e \in DOMAIN exp_conservation :
                InUnit(exp_conservation[e][1]) /\ InUnit(exp_conservation[e][2])

C5_Witness ==
    /\ Done
    /\ \E e \in DOMAIN exp_complexes :
           /\ Len(exp_complexes[e]) = 2
           /\ exp_complexes[e][1] = exp_complexes[e][2]
           /\ \E c, d \in DOMAIN model_complexes :
                  /\ c # d
                  /\ MemberIn(exp_complexes[e][1], model_complexes[c])
                  /\ MemberIn(exp_complexes[e][1], model_complexes[d])

SharesMember(members, model_members) ==
    \E i \in 1..Len(members) : MemberIn(members[i], model_members)

\* the set coverage of complex e once row has been added to the model file
CoverageAfter(e, row) ==
    Conservation(exp_complexes, LoadComplexes(Append(file2, row), name2))[e][2]

Intersecting(e, row) ==
    /\ name2 \o "_" \o row[2] \in DOMAIN model_complexes
    /\ SharesMember(exp_complexes[e], model_complexes[name2 \o "_" \o row[2]])

\* C6: adding a member to a model complex that shares a member with an
\* experimental complex never lowers the set_coverage of that complex.
C6_CoverageMonotone ==
    Done => \A row \in GoodRows : \A e \in DOMAIN exp_complexes :
                Intersecting(e, row) =>
                    Geq(CoverageAfter(e, row), exp_conservation[e][2])

C6_Witness ==
    /\ Done
    /\ \E row \in GoodRows : \E e \in DOMAIN exp_complexes :
           /\ Intersecting(e, row)
           /\ Gt(CoverageAfter(e, row), exp_conservation[e][2])

\* C9: a run over a membership file with a row of fewer than two fields
\* ends in a MalformedInputError and writes no comparison report.
C9_ShortRowIsMalformedInputError ==
    (pc # "ready" /\ (FileRaises(file1) \/ FileRaises(file2))) =>
        /\ pc = "crashed"
        /\ error.kind = "MalformedInputError"
        /\ ~compared_file.exists

\* a short-format table: every row is a label followed by its members
ShortFormatTable == \A i \in 1..Len(short_file) : Len(short_file[i]) >= 2

\* C7: for every short-format table, after convertToLong and the loader
\* every label of the table names a complex (name1_label) whose member
\* list is that row's members: no label and no member is lost or merged.
C7_RoundTripKeepsEveryRow ==
    (Done /\ ShortFormatTable) =>
        \A i \in 1..Len(short_file) :
            /\ ExpName(short_file[i][1]) \in DOMAIN exp_complexes
            /\ exp_complexes[ExpName(short_file[i][1])] = Tail(short_file[i])

\* the short tables in which every row has a member and no label recurs
WellFormedShort ==
    /\ ShortFormatTable
    /\ \A i, j \in 1..Len(short_file) :
           i # j => short_file[i][1] # short_file[j][1]

RoundTripOnWellFormed ==
    (Done /\ WellFormedShort) =>
        /\ DOMAIN exp_complexes =
               {ExpName(short_file[i][1]) : i \in 1..Len(short_file)}
        /\ \A i \in 1..Len(short_file) :
               exp_complexes[ExpName(short_file[i][1])] = Tail(short_file[i])

SpeciesDone == pc = "done" /\ component_file.exists

Elems(list) == {list[i] : i \in 1..Len(list)}

\* the components of the experimental complexes, as listed in the file
ExpComponents == {file1[i][1] : i \in 1..Len(file1)}

\* the identifiers under which a component is looked up in the map: the
\* UniProt ACs whose gene ids hold it, or the component itself
LookupIds(c) ==
    LET acs == {u \in DOMAIN id_conversion : MemberIn(c, id_conversion[u])}
    IN  IF acs = {} THEN {c} ELSE acs

\* C8: every component without an entry in the ID-to-OG map is counted
\* as unmapped and is a row of the component matrix under its own
\* identifier; every other component is there through its mapped group.
C8_UnmappedComponentsSurface ==
    SpeciesDone =>
        \A c \in ExpComponents : \A id \in LookupIds(c) :
            IF id \in DOMAIN uniprot_to_og
            THEN uniprot_to_og[id] \in Elems(component_file.rows)
            ELSE /\ MemberIn(id, unmapped_components)
                 /\ id \in Elems(component_file.rows)

\* the map entries of the components that have one
MappedEntries ==
    {uniprot_to_og[u] : u \in Elems(unified_components) \cap DOMAIN uniprot_to_og}

\* C10: each token of a comma-joined entry is a group of its own: a row of
\* the component matrix, looked up by itself in the group-to-taxa map, so
\* that its taxa are columns.
C10_EachTokenIsAGroup ==
    SpeciesDone =>
        \A entry \in MappedEntries : \A token \in Elems(CommaSplit(entry)) :
            /\ token \in Elems(component_file.rows)
            /\ token \in DOMAIN og_to_taxid =>
                   Elems(og_to_taxid[token]) \subseteq Elems(component_file.header)

\* C10 as amended: a map entry, comma-joined or not, is one group: the rows
\* of the component matrix are the whole entries, and the taxon columns
\* are the taxa of the whole entries that are keys of the group-to-taxa
\* map.
C10_EntryIsOneGroup ==
    SpeciesDone =>
        /\ Elems(component_file.rows) = MappedEntries
        /\ Elems(component_file.header) =
               UNION {Elems(og_to_taxid[entry]) :
                         entry \in MappedEntries \cap DOMAIN og_to_taxid}
        /\ cplx_file.header = component_file.header

C10_Witness ==
    /\ SpeciesDone
    /\ \E entry \in MappedEntries :
           /\ Len(CommaSplit(entry)) > 1
           /\ entry \in Elems(component_file.rows)
           /\ \E token \in Elems(CommaSplit(entry)) :
                  /\ token \in DOMAIN og_to_taxid
                  /\ token \notin Elems(component_file.rows)
                  /\ ~(Elems(og_to_taxid[token])
                           \subseteq Elems(component_file.header))

\* C11: every complex of a loaded mapping has at least one member, so that
\* no run over files that load without error divides by zero.
C11_NoEmptyComplexNoZeroDivisor ==
    /\ \A e \in DOMAIN exp_complexes : Len(exp_complexes[e]) >= 1
    /\ \A c \in DOMAIN model_complexes : Len(model_complexes[c]) >= 1
    /\ error.kind # "ZeroDivisionError"
    /\ pc = "crashed" => (FileRaises(file1) \/ FileRaises(file2))

C11_Witness ==
    /\ Done
    /\ \E e \in DOMAIN exp_complexes : \E c \in DOMAIN model_complexes :
           /\ SharesMember(exp_complexes[e], model_complexes[c])
           /\ Len(model_complexes[c]) = 1
           /\ Len(exp_complexes[e]) = 1
           /\ exp_conservation[e] = <<One, One>>

\* C13: the map-loading loop of compareSpecies ends after at most one call
\* of get_eggnog_maps: the pass after a rebuild finds a map file and a
\* taxon file, and then loads one of each and goes on, or ends the run
\* with the more-than-one-file message.
C13_LoopEndsAfterOneRebuild ==
    (pc # "ready") =>
        /\ pc # "looping"
        /\ rebuilds <= 1
        /\ map_files >= 1 /\ taxon_files >= 1
        /\ pc \in {"done", "crashed"} =>
               /\ map_files = 1 /\ taxon_files = 1
               /\ uniprot_to_og = map_content
               /\ og_to_taxid = taxon_content
        /\ pc = "exited" <=> (map_files > 1 \/ taxon_files > 1)
        /\ pc = "exited" =>
               /\ error.kind = "SystemExit"
               /\ error.src_line = (IF map_files > 1 THEN 444 ELSE 460)
               /\ ~component_file.exists /\ ~cplx_file.exists

C13_Witness ==
    /\ rebuilds = 1
    /\ pc = "done"
    /\ map_files = 1 /\ taxon_files = 1
    /\ component_file.exists

C13_WitnessExit ==
    /\ rebuilds = 1
    /\ pc = "exited"

\* C12: compareSpecies runs only after the E. coli question was answered Y
\* and getEcoliIDs bound id_conversion; a run that reaches the species
\* question without it and answers Y ends at the call, before
\* compareSpecies starts, with no conservation file written and with the
\* model-comparison report, if one was asked for, already on disk.
C12_SpeciesOnlyAfterEcoliConversion ==
    /\ (stage = "species" \/ component_file.exists \/ cplx_file.exists
           \/ rebuilds > 0)
           => (answers.ecoli /\ mode = "ecoli" /\ id_conversion = ecoli_txt)
    /\ (stage = "end" /\ pc # "exited" /\ ~answers.ecoli /\ answers.taxon) =>
           /\ pc = "crashed"
           /\ error = [kind |-> "NameError", src_line |-> 580]
           /\ ~component_file.exists /\ ~cplx_file.exists
           /\ rebuilds = 0
           /\ answers.model => compared_file.exists

C12_Witness ==
    /\ stage = "end"
    /\ ~answers.ecoli /\ answers.taxon /\ answers.model
    /\ error.kind = "NameError"
    /\ compared_file.exists
    /\ ~component_file.exists

====
